---- MODULE Spec2Model ----
(***************************************************************************)
(* Translation-unit statistics store of sccache (src/tu_stats.rs).         *)
(*                                                                         *)
(* The model covers TuStatsStorage (new / record / get_all) on top of an   *)
(* ordered key-value keyspace, the process-wide GLOBAL_RECORDER guarded by *)
(* a mutex (init_recorder / record_stats) and query_stats.  Strings are    *)
(* sequences of one-character strings, so that formatting, keys and their  *)
(* byte order are computed the way the code computes them.                 *)
(***************************************************************************)
EXTENDS Integers, Sequences, FiniteSets, TLC

\* ------------------------------------------------------------------------
\* Bounds of the model
\* ------------------------------------------------------------------------

\* Number of calls (init_recorder, record_stats, record, query_stats) started.
MaxOps == 3

\* Number of injected failures: an engine call that fails (open, open_partition,
\* insert, persist) or a foreign value put into a partition.
MaxFaults == 1

\* Worker threads of the process.
Threads == {"t1", "t2"}

NoThread == "none"

\* ------------------------------------------------------------------------
\* Strings and formatting
\* ------------------------------------------------------------------------

\* A path unit that is not valid UTF-8 (a raw 0xFF byte of an OsString).
InvalidByte == "<FF>"

\* U+FFFD, what Path::display() prints for an invalid unit.
Replacement == "<U+FFFD>"

\* First byte of the UTF-8 encoding of each character used in keys.
ByteOf ==
    " " :> 32 @@ "," :> 44 @@ "-" :> 45 @@ "." :> 46 @@ "/" :> 47 @@
    "0" :> 48 @@ "1" :> 49 @@ "2" :> 50 @@ "3" :> 51 @@ "4" :> 52 @@
    "5" :> 53 @@ "6" :> 54 @@ "7" :> 55 @@ "8" :> 56 @@ "9" :> 57 @@
    ":" :> 58 @@ "A" :> 65 @@ "S" :> 83 @@ "T" :> 84 @@ "_" :> 95 @@
    "a" :> 97 @@ "b" :> 98 @@ "c" :> 99 @@ "e" :> 101 @@ "f" :> 102 @@
    "g" :> 103 @@ "i" :> 105 @@ "m" :> 109 @@ "n" :> 110 @@ "s" :> 115 @@
    "t" :> 116 @@ "v" :> 118 @@ "y" :> 121 @@ "z" :> 122 @@ "{" :> 123 @@
    "}" :> 125 @@ Replacement :> 239 @@ InvalidByte :> 255

DigitChar == <<"0", "1", "2", "3", "4", "5", "6", "7", "8", "9">>

RECURSIVE Digits(_)
Digits(n) ==
    IF n < 10 THEN <<DigitChar[n + 1]>>
    ELSE Digits(n \div 10) \o <<DigitChar[(n % 10) + 1]>>

\* `{}` / `{:?}` of an integer.
FmtInt(n) == IF n < 0 THEN <<"-">> \o Digits(-n) ELSE Digits(n)

\* `{:?}` of std::time::SystemTime on unix:
\* "SystemTime { tv_sec: S, tv_nsec: N }".
DebugSystemTime(ts) ==
    <<"S","y","s","t","e","m","T","i","m","e"," ","{"," ",
      "t","v","_","s","e","c",":"," ">>
    \o FmtInt(ts.tv_sec)
    \o <<","," ","t","v","_","n","s","e","c",":"," ">>
    \o FmtInt(ts.tv_nsec)
    \o <<" ","}">>

\* Path::display(): lossy, every invalid unit becomes U+FFFD.
PathDisplay(path) ==
    [i \in DOMAIN path |-> IF path[i] = InvalidByte THEN Replacement ELSE path[i]]

\* Path::to_str(), as serde's Serialize for Path uses it: None on invalid UTF-8.
PathToStr(path) ==
    IF \E i \in DOMAIN path : path[i] = InvalidByte
    THEN [ok |-> FALSE]
    ELSE [ok |-> TRUE, val |-> path]

\* Byte-wise lexicographic order of two keys (the order of the keyspace).
RECURSIVE LexLess(_, _)
LexLess(a, b) ==
    IF a = <<>> THEN b # <<>>
    ELSE IF b = <<>> THEN FALSE
    ELSE IF ByteOf[Head(a)] # ByteOf[Head(b)] THEN ByteOf[Head(a)] < ByteOf[Head(b)]
    ELSE LexLess(Tail(a), Tail(b))

\* ------------------------------------------------------------------------
\* TranslationUnitStats values handed to the recorder
\* ------------------------------------------------------------------------

IncF == [path_prefix |-> <<"f">>, count |-> 2, lines |-> 30]
IncG == [path_prefix |-> <<"g">>, count |-> 1, lines |-> 40]

\* a.c compiled at (1 s, 0 ns)
StatA ==
    [input_file |-> <<"a", ".", "c">>,
     preprocessed_size |-> 10,
     num_includes |-> 3,
     preprocess_duration |-> [secs |-> 0, nanos |-> 5],
     compile_duration |-> [secs |-> 1, nanos |-> 0],
     dist_retry_count |-> 0,
     is_distributed |-> FALSE,
     top_includes_by_count |-> <<IncF, IncG>>,
     top_includes_by_size |-> <<IncG, IncF>>,
     timestamp |-> [tv_sec |-> 1, tv_nsec |-> 0]]

\* the same file at the same instant, other measurements (exact key collision)
StatA2 ==
    [StatA EXCEPT !.preprocessed_size = 20, !.dist_retry_count = 1,
                  !.is_distributed = TRUE, !.top_includes_by_size = <<>>]

\* the same file 5 ns later
StatALater == [StatA EXCEPT !.timestamp = [tv_sec |-> 1, tv_nsec |-> 5]]

\* another file at the same instant
StatB == [StatA EXCEPT !.input_file = <<"b", ".", "c">>, !.top_includes_by_count = <<>>]

\* a file whose name is not valid UTF-8
StatBadPath == [StatA EXCEPT !.input_file = <<"a", InvalidByte>>]

\* a timestamp before UNIX_EPOCH
StatPreEpoch == [StatA EXCEPT !.timestamp = [tv_sec |-> -1, tv_nsec |-> 0]]

AllStats == {StatA, StatA2, StatALater, StatB, StatBadPath, StatPreEpoch}

NoStats == [none |-> TRUE]

\* ------------------------------------------------------------------------
\* Key and value of a record
\* ------------------------------------------------------------------------

\* Faulty variant: the key built from the whole seconds of the timestamp only.
KeySecondsOnly(stats) ==
    FmtInt(stats.timestamp.tv_sec) \o <<":">> \o PathDisplay(stats.input_file)

\* Faulty variant: the key built from the timestamp alone, without the file.
KeyWithoutFile(stats) == DebugSystemTime(stats.timestamp)

\* Faulty variant: a further field of the record appended to the key.
KeyWithSize(stats) ==
    DebugSystemTime(stats.timestamp) \o <<":">> \o PathDisplay(stats.input_file)
    \o <<":">> \o FmtInt(stats.preprocessed_size)

\* format!("{:?}:{}", stats.timestamp, stats.input_file.display())
KeyOf(stats) ==
    DebugSystemTime(stats.timestamp) \o <<":">> \o PathDisplay(stats.input_file)

\* ------------------------------------------------------------------------
\* JSON documents (serde_json): every value carries its kind
\* ------------------------------------------------------------------------

\* The values of a JSON document.  A number is an integer here, a string a
\* sequence of characters, an object a function from member names to values.
JNull == [null |-> TRUE]
JBool(b) == [bool |-> b]
JNumber(n) == [number |-> n]
JString(s) == [string |-> s]
JArray(elems) == [array |-> elems]
JObject(members) == [object |-> members]

IsKind(j, kind) == DOMAIN j = {kind}

\* Serialize for Duration: {"secs": .., "nanos": ..}
SerDuration(d) == JObject([secs |-> JNumber(d.secs), nanos |-> JNumber(d.nanos)])

\* Faulty variant: the timestamp written with whole seconds only.
SerSystemTimeSeconds(ts) ==
    IF ts.tv_sec < 0
    THEN [ok |-> FALSE]
    ELSE [ok |-> TRUE,
          val |-> JObject([secs_since_epoch |-> JNumber(ts.tv_sec),
                           nanos_since_epoch |-> JNumber(0)])]

\* Serialize for SystemTime: fails before UNIX_EPOCH, else the offset from it.
SerSystemTime(ts) ==
    IF ts.tv_sec < 0
    THEN [ok |-> FALSE]
    ELSE [ok |-> TRUE,
          val |-> JObject([secs_since_epoch |-> JNumber(ts.tv_sec),
                           nanos_since_epoch |-> JNumber(ts.tv_nsec)])]

\* Serialize for Vec<IncludeStats>: an array of objects.
SerIncludes(incs) ==
    JArray([i \in DOMAIN incs |->
               JObject([path_prefix |-> JString(incs[i].path_prefix),
                        count |-> JNumber(incs[i].count),
                        lines |-> JNumber(incs[i].lines)])])

\* serde_json::to_vec(stats): the JSON document of the derived Serialize.
ToVec(stats) ==
    LET file == PathToStr(stats.input_file)
        ts   == SerSystemTime(stats.timestamp)
    IN  IF ~file.ok \/ ~ts.ok
        THEN [ok |-> FALSE]
        ELSE [ok |-> TRUE,
              val |-> JObject(
                  [input_file |-> JString(file.val),
                   preprocessed_size |-> JNumber(stats.preprocessed_size),
                   num_includes |-> JNumber(stats.num_includes),
                   preprocess_duration |-> SerDuration(stats.preprocess_duration),
                   compile_duration |-> SerDuration(stats.compile_duration),
                   dist_retry_count |-> JNumber(stats.dist_retry_count),
                   is_distributed |-> JBool(stats.is_distributed),
                   top_includes_by_count |-> SerIncludes(stats.top_includes_by_count),
                   top_includes_by_size |-> SerIncludes(stats.top_includes_by_size),
                   timestamp |-> ts.val])]

\* The fields of the structs in the order of their declaration.
StatsFields ==
    <<"input_file", "preprocessed_size", "num_includes", "preprocess_duration",
      "compile_duration", "dist_retry_count", "is_distributed",
      "top_includes_by_count", "top_includes_by_size", "timestamp">>

IncludeFields == <<"path_prefix", "count", "lines">>

DurationFields == <<"secs", "nanos">>

SystemTimeFields == <<"secs_since_epoch", "nanos_since_epoch">>

FieldNames(fields) == {fields[i] : i \in DOMAIN fields}

FieldIndex(fields, name) == CHOOSE i \in DOMAIN fields : fields[i] = name

\* deserialize_struct of serde_json: a struct is read from an object, by
\* member name, or from an array, by position.  From an object every field
\* must be there; a member that is no field is skipped, or is an error for a
\* struct that denies it.  An array must hold exactly one element per field.
\* Any other kind of value is an error.
StructMembers(j, fields, denyUnknown) ==
    IF IsKind(j, "object")
    THEN IF \/ ~(FieldNames(fields) \subseteq DOMAIN j.object)
            \/ (denyUnknown /\ DOMAIN j.object # FieldNames(fields))
         THEN [ok |-> FALSE]
         ELSE [ok |-> TRUE, val |-> j.object]
    ELSE IF IsKind(j, "array")
    THEN IF Len(j.array) # Len(fields)
         THEN [ok |-> FALSE]
         ELSE [ok |-> TRUE,
               val |-> [name \in FieldNames(fields) |->
                           j.array[FieldIndex(fields, name)]]]
    ELSE [ok |-> FALSE]

\* A JSON value that an unsigned field (usize, u32, u64) takes: a number that
\* is not negative.  Every integer of the model is below the upper end of
\* these types.
IsUnsigned(j) == IF IsKind(j, "number") THEN j.number \in Nat ELSE FALSE

\* A JSON value that a String or PathBuf field takes: a string.
IsString(j) == IsKind(j, "string")

\* A JSON value that a bool field takes.
IsBool(j) == IsKind(j, "bool")

\* Deserialize for Duration: the fields are exactly secs (u64) and nanos (u32),
\* any other member is an error; Duration::new(secs, nanos) carries the nanos
\* into the seconds.
DeDuration(j) ==
    LET m == StructMembers(j, DurationFields, TRUE)
    IN  IF ~m.ok THEN [ok |-> FALSE]
        ELSE IF ~IsUnsigned(m.val.secs) \/ ~IsUnsigned(m.val.nanos)
        THEN [ok |-> FALSE]
        ELSE LET secs == m.val.secs.number
                 nanos == m.val.nanos.number
             IN  [ok |-> TRUE,
                  val |-> [secs |-> secs + (nanos \div (10 ^ 9)),
                           nanos |-> nanos % (10 ^ 9)]]

\* Deserialize for SystemTime: the fields are exactly secs_since_epoch (u64)
\* and nanos_since_epoch (u32); UNIX_EPOCH + Duration::new(secs, nanos).
DeSystemTime(j) ==
    LET m == StructMembers(j, SystemTimeFields, TRUE)
    IN  IF ~m.ok THEN [ok |-> FALSE]
        ELSE IF \/ ~IsUnsigned(m.val.secs_since_epoch)
                \/ ~IsUnsigned(m.val.nanos_since_epoch)
        THEN [ok |-> FALSE]
        ELSE LET secs == m.val.secs_since_epoch.number
                 nanos == m.val.nanos_since_epoch.number
             IN  [ok |-> TRUE,
                  val |-> [tv_sec |-> secs + (nanos \div (10 ^ 9)),
                           tv_nsec |-> nanos % (10 ^ 9)]]

\* The derived Deserialize of IncludeStats: path_prefix a string, count and
\* lines as usize; a member it does not know is skipped.
DeIncludeStats(j) ==
    LET m == StructMembers(j, IncludeFields, FALSE)
    IN  IF ~m.ok THEN [ok |-> FALSE]
        ELSE IF \/ ~IsString(m.val.path_prefix)
                \/ ~IsUnsigned(m.val.count)
                \/ ~IsUnsigned(m.val.lines)
        THEN [ok |-> FALSE]
        ELSE [ok |-> TRUE,
              val |-> [path_prefix |-> m.val.path_prefix.string,
                       count |-> m.val.count.number,
                       lines |-> m.val.lines.number]]

\* Deserialize for Vec<IncludeStats>: an array; the first element that fails
\* fails it all.
DeIncludes(j) ==
    IF ~IsKind(j, "array") THEN [ok |-> FALSE]
    ELSE IF \E i \in DOMAIN j.array : ~DeIncludeStats(j.array[i]).ok
    THEN [ok |-> FALSE]
    ELSE [ok |-> TRUE,
          val |-> [i \in DOMAIN j.array |-> DeIncludeStats(j.array[i]).val]]

\* serde_json::from_slice::<TranslationUnitStats>(value), the derived
\* Deserialize: every field of the struct must be present (no serde default)
\* and of its type, a member the struct does not have is skipped.
FromSlice(value) ==
    LET m == StructMembers(value, StatsFields, FALSE)
    IN  IF ~m.ok THEN [ok |-> FALSE]
        ELSE LET preprocess == DeDuration(m.val.preprocess_duration)
                 compile == DeDuration(m.val.compile_duration)
                 byCount == DeIncludes(m.val.top_includes_by_count)
                 bySize == DeIncludes(m.val.top_includes_by_size)
                 ts == DeSystemTime(m.val.timestamp)
             IN  IF \/ ~IsString(m.val.input_file)
                    \/ ~IsUnsigned(m.val.preprocessed_size)
                    \/ ~IsUnsigned(m.val.num_includes)
                    \/ ~IsUnsigned(m.val.dist_retry_count)
                    \/ ~IsBool(m.val.is_distributed)
                    \/ ~preprocess.ok \/ ~compile.ok
                    \/ ~byCount.ok \/ ~bySize.ok
                    \/ ~ts.ok
                 THEN [ok |-> FALSE]
                 ELSE [ok |-> TRUE,
                       val |-> [input_file |-> m.val.input_file.string,
                                preprocessed_size |-> m.val.preprocessed_size.number,
                                num_includes |-> m.val.num_includes.number,
                                preprocess_duration |-> preprocess.val,
                                compile_duration |-> compile.val,
                                dist_retry_count |-> m.val.dist_retry_count.number,
                                is_distributed |-> m.val.is_distributed.bool,
                                top_includes_by_count |-> byCount.val,
                                top_includes_by_size |-> bySize.val,
                                timestamp |-> ts.val]]

\* ------------------------------------------------------------------------
\* The keyspace: one partition "tu_stats", a map from key to value
\* ------------------------------------------------------------------------

EmptyPartition == <<>>

\* partition.insert(key, value): the key's former value, if any, is replaced.
PartitionInsert(part, key, value) ==
    [k \in (DOMAIN part) \cup {key} |-> IF k = key THEN value ELSE part[k]]

\* The keys of a partition in iteration order (ascending byte order).
RECURSIVE SortedKeys(_)
SortedKeys(keys) ==
    IF keys = {} THEN <<>>
    ELSE LET first == CHOOSE k \in keys : \A o \in keys \ {k} : LexLess(k, o)
         IN  <<first>> \o SortedKeys(keys \ {first})

\* Faulty variant of the loop of get_all: a value that does not deserialize is
\* skipped.
RECURSIVE CollectSkipping(_, _, _)
CollectSkipping(part, keys, stats) ==
    IF keys = <<>> THEN [ok |-> TRUE, val |-> stats]
    ELSE LET stat == FromSlice(part[Head(keys)])
         IN  IF ~stat.ok THEN CollectSkipping(part, Tail(keys), stats)
             ELSE CollectSkipping(part, Tail(keys), Append(stats, stat.val))

\* The loop of get_all: the first value that does not deserialize ends the
\* call with an error, otherwise every record is pushed in iteration order.
RECURSIVE Collect(_, _, _)
Collect(part, keys, stats) ==
    IF keys = <<>> THEN [ok |-> TRUE, val |-> stats]
    ELSE LET stat == FromSlice(part[Head(keys)])
         IN  IF ~stat.ok THEN [ok |-> FALSE, val |-> <<>>]
             ELSE Collect(part, Tail(keys), Append(stats, stat.val))

\* TuStatsStorage::get_all on an opened partition.
GetAll(part) == Collect(part, SortedKeys(DOMAIN part), <<>>)

\* ------------------------------------------------------------------------
\* Configuration and database paths
\* ------------------------------------------------------------------------

NoFile == "None"

\* An explicitly configured stats_file.
CustomDb == "/custom/stats.db"

\* default_disk_cache_dir().join("tu_stats.db")
DefaultDb == "<cache>/tu_stats.db"

DbPaths == {CustomDb, DefaultDb}

CfgDisabled == [enabled |-> FALSE, stats_file |-> NoFile]
CfgCustom == [enabled |-> TRUE, stats_file |-> CustomDb]
CfgDefault == [enabled |-> TRUE, stats_file |-> NoFile]

Configs == {CfgDisabled, CfgCustom, CfgDefault}

\* `if let Some(path) = stats_file { path } else { default dir + "tu_stats.db" }`
StatsFile(stats_file) == IF stats_file # NoFile THEN stats_file ELSE DefaultDb

\* The value of GLOBAL_RECORDER when no storage is installed.
None == "None"

\* Faulty variant: a storage is stored only while none is installed.
InstallOnce(old, storage) == IF old = None THEN storage ELSE old

\* `*recorder = Some(storage)`: the new storage replaces whatever was there.
Install(old, storage) == storage

\* Faulty variant: a disabled config uninstalls the storage.
DisabledInitClears(old) == None

\* Lines 159-161: a disabled config returns before GLOBAL_RECORDER is touched.
DisabledInit(old) == old

\* Faulty variant: a failed open uninstalls the storage.
FailedInitClears(old) == None

\* Line 170: the `?` on TuStatsStorage::new returns the error before
\* GLOBAL_RECORDER is locked or assigned.
FailedInit(old) == old

\* Faulty variant: persist(PersistMode::Buffer), which only hands the journal
\* to the operating system.
PersistBufferOnly(part, onDisk, journal) == [durable |-> onDisk, unsynced |-> journal]

\* keyspace.persist(PersistMode::SyncAll): everything written so far is on disk
\* when the call returns, nothing is left in the journal's buffer.
PersistSyncAll(part, onDisk, journal) == [durable |-> part, unsynced |-> <<>>]

\* Faulty variant: the lock is handed out although another thread holds it.
LockNotExclusive(holder) == TRUE

\* GLOBAL_RECORDER.lock(): the caller goes on only while no thread holds the
\* mutex.
LockAvailable(holder) == holder = NoThread

\* Faulty variant: the guard is leaked, the mutex stays locked.
GuardLeaked(holder) == holder

\* The MutexGuard of record_stats goes out of scope (line 184): the mutex is
\* unlocked.
Unlock(holder) == NoThread

\* Faulty variant: record_stats hands the error of storage.record to its caller.
RecordStatsPropagates(inner) == IF inner = "err" THEN "err" ELSE "unit"

\* What record_stats hands back to its caller: it has no return value, an
\* error of storage.record only reaches the log.
RecordStatsReturn(inner) == "unit"

\* warn!("Failed to record TU stats: {}", e), once per failed storage.record.
Warned(inner) == IF inner = "err" THEN 1 ELSE 0

\* ------------------------------------------------------------------------
\* State
\* ------------------------------------------------------------------------

VARIABLES
    recorder,      \* GLOBAL_RECORDER: None or the path of the installed storage
    mutex,         \* the thread holding GLOBAL_RECORDER's lock, or NoThread
    created,       \* paths at which a keyspace has been opened (created)
    mem,           \* per path: the partition as the running engine sees it
    durable,       \* per path: the partition as of the last persist(SyncAll)
    unsynced,      \* per path: journal of the writes since the last persist
    pc,            \* per thread: position in the call it is running
    cur,           \* per thread: the call it is running, with its locals
    last,          \* the call that returned last, with what it returned
    warnings,      \* number of warn! lines logged
    nops,          \* calls started
    faults,        \* engine failures injected
    log,           \* history: the writes accepted by partition.insert, in order
    installs       \* history: the paths stored by init_recorder (line 172), in order

vars ==
    <<recorder, mutex, created, mem, durable, unsynced, pc, cur, last,
      warnings, nops, faults, log, installs>>

NoVal == [none |-> TRUE]

\* idx: position in log of the write this call made, 0 before it.
NoCall == [call |-> "none", stats |-> NoStats, h |-> None,
           key |-> <<>>, val |-> NoVal, idx |-> 0]

\* res: what the caller got ("ok", "err", or "unit" for record_stats);
\* inner: the Result of storage.record inside the call, if it ran;
\* list: the records of an Ok(get_all).
NoLast == [call |-> "none", stats |-> NoStats, h |-> None, idx |-> 0,
           res |-> "none", inner |-> "none", list |-> <<>>]

Init ==
    /\ recorder = None
    /\ mutex = NoThread
    /\ created = {}
    /\ mem = [p \in DbPaths |-> EmptyPartition]
    /\ durable = [p \in DbPaths |-> EmptyPartition]
    /\ unsynced = [p \in DbPaths |-> <<>>]
    /\ pc = [t \in Threads |-> "idle"]
    /\ cur = [t \in Threads |-> NoCall]
    /\ last = NoLast
    /\ warnings = 0
    /\ nops = 0
    /\ faults = 0
    /\ log = <<>>
    /\ installs = <<>>

\* A call may start on an idle thread while the budget of calls lasts.
CanStart(t) == pc[t] = "idle" /\ nops < MaxOps

\* An engine call either succeeds or, while the budget of failures lasts, fails.
Succeeds == faults' = faults
Fails == faults < MaxFaults /\ faults' = faults + 1

\* Thread t moves on inside call `me`.
Goes(t, me, to) ==
    /\ pc' = [pc EXCEPT ![t] = to]
    /\ cur' = [cur EXCEPT ![t] = me]
    /\ UNCHANGED last

\* Call `me` of thread t returns.
Returns(t, me, res, inner, list) ==
    /\ pc' = [pc EXCEPT ![t] = "idle"]
    /\ cur' = [cur EXCEPT ![t] = NoCall]
    /\ last' = [call |-> me.call, stats |-> me.stats, h |-> me.h, idx |-> me.idx,
                res |-> res, inner |-> inner, list |-> list]

engine == <<created, mem, durable, unsynced>>

\* ------------------------------------------------------------------------
\* init_recorder
\* ------------------------------------------------------------------------

\* Lines 158-170: a disabled config returns Ok at once; otherwise the path is
\* resolved and the storage opened, an open error going to the caller.
InitRecorder(t, config) ==
    /\ CanStart(t)
    /\ nops' = nops + 1
    /\ LET call == [NoCall EXCEPT !.call = "init_recorder"]
           me   == [call EXCEPT !.h = StatsFile(config.stats_file)]
       IN  \/ /\ ~config.enabled
              /\ recorder' = DisabledInit(recorder)
              /\ Returns(t, call, "ok", "none", <<>>)
              /\ UNCHANGED <<created, faults>>
           \/ /\ config.enabled
              /\ Succeeds
              /\ created' = created \cup {me.h}
              /\ Goes(t, me, "ir_lock")
              /\ UNCHANGED recorder
           \/ /\ config.enabled
              /\ Fails
              /\ recorder' = FailedInit(recorder)
              /\ Returns(t, me, "err", "none", <<>>)
              /\ UNCHANGED created
    /\ UNCHANGED <<mutex, mem, durable, unsynced, warnings, log, installs>>

\* Lines 171-173: take the lock, store the new storage, return Ok (the guard is
\* dropped on return).
InitInstall(t) ==
    /\ pc[t] = "ir_lock"
    /\ LockAvailable(mutex)
    /\ recorder' = Install(recorder, cur[t].h)
    /\ installs' = Append(installs, cur[t].h)
    /\ Returns(t, cur[t], "ok", "none", <<>>)
    /\ UNCHANGED <<mutex, engine, warnings, nops, faults, log>>

\* ------------------------------------------------------------------------
\* TuStatsStorage::record, called by record_stats or directly on a storage
\* ------------------------------------------------------------------------

\* How a call of storage.record ends: record_stats logs an error and drops the
\* guard (lines 180-185), a direct caller gets the Result.
RecordEnds(t, me, result) ==
    IF me.call = "record_stats"
    THEN /\ Returns(t, me, RecordStatsReturn(result), result, <<>>)
         /\ warnings' = warnings + Warned(result)
         /\ mutex' = Unlock(mutex)
    ELSE /\ Returns(t, me, result, result, <<>>)
         /\ UNCHANGED <<warnings, mutex>>

\* Lines 87-100: open the partition, build the key, serialize the record.
RecordPrepare(t, me) ==
    LET value == ToVec(me.stats)
    IN  \/ /\ Fails
           /\ RecordEnds(t, me, "err")
        \/ /\ Succeeds
           /\ ~value.ok
           /\ RecordEnds(t, [me EXCEPT !.key = KeyOf(me.stats)], "err")
        \/ /\ Succeeds
           /\ value.ok
           /\ Goes(t, [me EXCEPT !.key = KeyOf(me.stats), !.val = value.val],
                   "rec_insert")
           /\ mutex' = IF me.call = "record_stats" THEN t ELSE mutex
           /\ UNCHANGED warnings

\* Line 177: record_stats is called; the caller now waits for the lock.
RecordStats(t, stats) ==
    /\ CanStart(t)
    /\ nops' = nops + 1
    /\ Goes(t, [NoCall EXCEPT !.call = "record_stats", !.stats = stats], "rs_lock")
    /\ UNCHANGED <<recorder, mutex, engine, warnings, faults, log, installs>>

\* Faulty variant: the storage is moved out of the singleton (Option::take).
TakeStorage(old) == None

\* Line 179: `if let Some(ref storage) = *recorder` borrows the storage, the
\* singleton keeps it.
BorrowStorage(old) == old

\* Faulty variant: without a storage the default store is used.
StorageOrDefault(old) == IF old = None THEN DefaultDb ELSE old

\* Line 179: the storage record_stats works with is the one in the singleton,
\* if any.
StorageOf(old) == old

\* Lines 178-180: the lock is taken; without a storage there is nothing to
\* do, with one its record method runs while the guard is alive.
RecordStatsLocked(t) ==
    /\ pc[t] = "rs_lock"
    /\ LockAvailable(mutex)
    /\ LET me == [cur[t] EXCEPT !.h = StorageOf(recorder)]
       IN  IF me.h = None
           THEN /\ Returns(t, me, RecordStatsReturn("none"), "none", <<>>)
                /\ UNCHANGED <<mutex, warnings, faults>>
           ELSE RecordPrepare(t, me)
    /\ recorder' = BorrowStorage(recorder)
    /\ UNCHANGED <<engine, log, installs, nops>>

\* A thread that shares an opened storage calls its record method itself.
StorageRecord(t, path, stats) ==
    /\ CanStart(t)
    /\ path \in created
    /\ nops' = nops + 1
    /\ RecordPrepare(t, [NoCall EXCEPT !.call = "record", !.stats = stats,
                                       !.h = path])
    /\ UNCHANGED <<recorder, engine, log, installs>>

\* Lines 102-104: partition.insert(key, value).
RecordInsert(t) ==
    /\ pc[t] = "rec_insert"
    /\ LET me == cur[t]
       IN  \/ /\ Succeeds
              /\ mem' = [mem EXCEPT ![me.h] = PartitionInsert(@, me.key, me.val)]
              /\ unsynced' = [unsynced EXCEPT ![me.h] = Append(@, <<me.key, me.val>>)]
              /\ log' = Append(log, [path |-> me.h, stats |-> me.stats,
                                     acked |-> FALSE])
              /\ Goes(t, [me EXCEPT !.idx = Len(log) + 1], "rec_persist")
              /\ UNCHANGED <<warnings, mutex>>
           \/ /\ Fails
              /\ RecordEnds(t, me, "err")
              /\ UNCHANGED <<mem, unsynced, log>>
    /\ UNCHANGED <<recorder, created, durable, nops, installs>>

\* Lines 106-110: keyspace.persist(SyncAll), then Ok(()).
RecordPersist(t) ==
    /\ pc[t] = "rec_persist"
    /\ LET me == cur[t]
           synced == PersistSyncAll(mem[me.h], durable[me.h], unsynced[me.h])
       IN  \/ /\ Succeeds
              /\ durable' = [durable EXCEPT ![me.h] = synced.durable]
              /\ unsynced' = [unsynced EXCEPT ![me.h] = synced.unsynced]
              /\ log' = [log EXCEPT ![me.idx].acked = TRUE]
              /\ RecordEnds(t, me, "ok")
           \/ /\ Fails
              /\ RecordEnds(t, me, "err")
              /\ UNCHANGED <<durable, unsynced, log>>
    /\ UNCHANGED <<recorder, created, mem, nops, installs>>

\* ------------------------------------------------------------------------
\* query_stats
\* ------------------------------------------------------------------------

\* Lines 188-195: resolve the path and open a storage there.
QueryStats(t, stats_file) ==
    /\ CanStart(t)
    /\ nops' = nops + 1
    /\ LET me == [NoCall EXCEPT !.call = "query_stats", !.h = StatsFile(stats_file)]
       IN  \/ /\ Succeeds
              /\ created' = created \cup {me.h}
              /\ Goes(t, me, "qs_get_all")
           \/ /\ Fails
              /\ Returns(t, me, "err", "none", <<>>)
              /\ UNCHANGED created
    /\ UNCHANGED <<recorder, mutex, mem, durable, unsynced, warnings, log,
                   installs>>

\* Lines 114-129 via line 196: open the partition and read every entry.
QueryGetAll(t) ==
    /\ pc[t] = "qs_get_all"
    /\ \/ /\ Succeeds
          /\ LET all == GetAll(mem[cur[t].h])
             IN  Returns(t, cur[t], IF all.ok THEN "ok" ELSE "err", "none", all.val)
       \/ /\ Fails
          /\ Returns(t, cur[t], "err", "none", <<>>)
    /\ UNCHANGED <<recorder, mutex, engine, warnings, nops, log, installs>>

\* ------------------------------------------------------------------------
\* The program
\* ------------------------------------------------------------------------

Next ==
    \E t \in Threads :
        \/ \E config \in Configs : InitRecorder(t, config)
        \/ InitInstall(t)
        \/ \E stats \in AllStats : RecordStats(t, stats)
        \/ RecordStatsLocked(t)
        \/ \E path \in DbPaths, stats \in AllStats : StorageRecord(t, path, stats)
        \/ RecordInsert(t)
        \/ RecordPersist(t)
        \/ \E stats_file \in {NoFile, CustomDb} : QueryStats(t, stats_file)
        \/ QueryGetAll(t)

Spec == Init /\ [][Next]_vars

\* The threads of a process that only records: init_recorder and record_stats
\* calls, every thread that can take a step is scheduled at some time.
NextLive ==
    \E t \in Threads :
        \/ \E config \in Configs : InitRecorder(t, config)
        \/ InitInstall(t)
        \/ \E stats \in {StatA, StatB, StatBadPath} : RecordStats(t, stats)
        \/ RecordStatsLocked(t)
        \/ RecordInsert(t)
        \/ RecordPersist(t)

Fairness ==
    \A t \in Threads :
        /\ WF_vars(InitInstall(t))
        /\ WF_vars(RecordStatsLocked(t))
        /\ WF_vars(RecordInsert(t))
        /\ WF_vars(RecordPersist(t))

SpecLive == Init /\ [][NextLive]_vars /\ Fairness

\* ------------------------------------------------------------------------
\* The environment: a crash of the process, foreign values in the partition
\* ------------------------------------------------------------------------

\* The partition after the writes of a journal prefix are applied in order.
RECURSIVE Replay(_, _)
Replay(part, writes) ==
    IF writes = <<>> THEN part
    ELSE Replay(PartitionInsert(part, Head(writes)[1], Head(writes)[2]), Tail(writes))

\* The process dies and is started again: every thread and GLOBAL_RECORDER are
\* gone; of the writes not yet persisted any prefix of the journal may have
\* reached the disk.  Reopening a path recovers what is on disk.
Crash ==
    /\ \E kept \in [DbPaths -> 0..MaxOps] :
          /\ \A p \in DbPaths : kept[p] <= Len(unsynced[p])
          /\ durable' = [p \in DbPaths |->
                            Replay(durable[p], SubSeq(unsynced[p], 1, kept[p]))]
    /\ mem' = durable'
    /\ unsynced' = [p \in DbPaths |-> <<>>]
    /\ recorder' = None
    /\ mutex' = NoThread
    /\ pc' = [t \in Threads |-> "idle"]
    /\ cur' = [t \in Threads |-> NoCall]
    /\ last' = [NoLast EXCEPT !.call = "crash"]
    /\ installs' = <<>>
    /\ UNCHANGED <<created, warnings, nops, faults, log>>

NextCrash == Next \/ Crash

SpecCrash == Init /\ [][NextCrash]_vars

\* A JSON document that is not a TranslationUnitStats (fields are missing).
Garbage ==
    JObject([input_file |-> JString(<<"a", ".", "c">>),
             preprocessed_size |-> JNumber(10)])

\* The document of a record as a later version of the struct, with one more
\* field, would write it.
NewerSchema == JObject([schema_version |-> JNumber(2)] @@ ToVec(StatB).val.object)

\* The document of a record written as an array, field by field.
Positional ==
    JArray([i \in DOMAIN StatsFields |-> ToVec(StatB).val.object[StatsFields[i]]])

\* A document with all fields, one of them outside its type (u32).
OutOfRange ==
    JObject([ToVec(StatB).val.object EXCEPT !.dist_retry_count = JNumber(-1)])

\* Documents with all fields, one of them of another kind than its type: the
\* file a number, the prefix of a ranking entry a number, a ranking an object.
WrongKinds ==
    LET doc == ToVec(StatA).val.object
        entry == doc.top_includes_by_count.array[1]
    IN  {JObject([doc EXCEPT !.input_file = JNumber(7)]),
         JObject([doc EXCEPT !.top_includes_by_count =
                     JArray(<<JObject([entry.object EXCEPT !.path_prefix = JNumber(7)])>>)]),
         JObject([doc EXCEPT !.top_includes_by_count =
                     JObject([a |-> entry])])}

\* Keys no record of this module has: one sorts before, one after its keys.
KeyBefore == <<"A">>
KeyAfter == <<"z">>

\* The foreign entries that may appear in a partition: the incomplete document
\* under the key of a record or ahead of all records, a complete one (that
\* deserializes or not) behind them.
ForeignEntries(part) ==
    {<<key, Garbage>> : key \in (DOMAIN part) \cup {KeyBefore}}
    \cup {<<KeyAfter, doc>> : doc \in {NewerSchema, Positional, OutOfRange} \cup WrongKinds}

\* A value that record did not write appears in the partition of an existing
\* store (another writer, another schema, damage), under a new or an old key.
\* Only get_all reads values, so the value appears while a query_stats call
\* has opened the store and is about to read it.
Corrupt(path, key, value) ==
    /\ path \in created
    /\ \E t \in Threads : pc[t] = "qs_get_all" /\ cur[t].h = path
    /\ <<key, value>> \in ForeignEntries(mem[path])
    /\ Fails
    /\ mem' = [mem EXCEPT ![path] = PartitionInsert(@, key, value)]
    /\ UNCHANGED <<recorder, mutex, created, durable, unsynced, pc, cur, last,
                   warnings, nops, log, installs>>

\* Threads record into the stores and query them while foreign values appear.
NextCorrupt ==
    \/ \E t \in Threads :
          \/ \E path \in DbPaths, stats \in {StatA, StatB} :
                StorageRecord(t, path, stats)
          \/ RecordInsert(t)
          \/ RecordPersist(t)
          \/ \E stats_file \in {NoFile, CustomDb} : QueryStats(t, stats_file)
          \/ QueryGetAll(t)
    \/ \E path \in DbPaths : \E entry \in ForeignEntries(mem[path]) :
          Corrupt(path, entry[1], entry[2])

SpecCorrupt == Init /\ [][NextCorrupt]_vars

\* ------------------------------------------------------------------------
\* export_to_csv
\* ------------------------------------------------------------------------

\* The three push_str of the header (lines 204-206).  A column name is one
\* unit of text; no name holds a comma.
CsvHeader ==
    <<"timestamp", ",", "input_file", ",", "preprocessed_size", ",",
      "num_includes", ",", "preprocess_duration_ms", ",", "compile_duration_ms", ",",
      "dist_retry_count", ",", "is_distributed", ",">>
    \o <<"top1_by_count", ",", "top1_count", ",", "top1_lines", ",",
         "top2_by_count", ",", "top2_count", ",", "top2_lines", ",",
         "top3_by_count", ",", "top3_count", ",", "top3_lines", ",">>
    \o <<"top1_by_size", ",", "top1_lines", ",", "top1_count", ",",
         "top2_by_size", ",", "top2_lines", ",", "top2_count", ",",
         "top3_by_size", ",", "top3_lines", ",", "top3_count", "\n">>

\* timestamp.duration_since(UNIX_EPOCH).unwrap_or_default().as_secs(): an
\* instant before the epoch gives the default duration, zero.
UnixSeconds(ts) == IF ts.tv_sec < 0 THEN 0 ELSE ts.tv_sec

\* Duration::as_millis(): whole milliseconds.
AsMillis(d) == d.secs * 1000 + (d.nanos \div (10 ^ 6))

\* `if stat.is_distributed { "true" } else { "false" }`
FmtBool(b) == IF b THEN <<"t", "r", "u", "e">> ELSE <<"f", "a", "l", "s", "e">>

\* Lines 214-224: the eight scalar fields, written with `{}` and commas.
CsvScalars(stat) ==
    FmtInt(UnixSeconds(stat.timestamp)) \o <<",">>
    \o PathDisplay(stat.input_file) \o <<",">>
    \o FmtInt(stat.preprocessed_size) \o <<",">>
    \o FmtInt(stat.num_includes) \o <<",">>
    \o FmtInt(AsMillis(stat.preprocess_duration)) \o <<",">>
    \o FmtInt(AsMillis(stat.compile_duration)) \o <<",">>
    \o FmtInt(stat.dist_retry_count) \o <<",">>
    \o FmtBool(stat.is_distributed)

\* Lines 228-232, one turn of the loop: entry i of the by-count ranking as
\* ",prefix,count,lines", or ",,," when the ranking has no entry i.
CsvByCountEntry(incs, i) ==
    IF i + 1 \in DOMAIN incs
    THEN <<",">> \o incs[i + 1].path_prefix
         \o <<",">> \o FmtInt(incs[i + 1].count)
         \o <<",">> \o FmtInt(incs[i + 1].lines)
    ELSE <<",", ",", ",">>

\* Faulty variant: the by-size block written in the order of the by-count one.
CsvBySizeEntryCountFirst(incs, i) ==
    IF i + 1 \in DOMAIN incs
    THEN <<",">> \o incs[i + 1].path_prefix
         \o <<",">> \o FmtInt(incs[i + 1].count)
         \o <<",">> \o FmtInt(incs[i + 1].lines)
    ELSE <<",", ",", ",">>

\* Lines 237-241, one turn of the loop: entry i of the by-size ranking as
\* ",prefix,lines,count", or ",,," when the ranking has no entry i.
CsvBySizeEntry(incs, i) ==
    IF i + 1 \in DOMAIN incs
    THEN <<",">> \o incs[i + 1].path_prefix
         \o <<",">> \o FmtInt(incs[i + 1].lines)
         \o <<",">> \o FmtInt(incs[i + 1].count)
    ELSE <<",", ",", ",">>

\* `for i in 0..3` over the by-count ranking (lines 227-233).
RECURSIVE CsvTopByCount(_, _)
CsvTopByCount(incs, i) ==
    IF i >= 3 THEN <<>>
    ELSE CsvByCountEntry(incs, i) \o CsvTopByCount(incs, i + 1)

\* `for i in 0..3` over the by-size ranking (lines 236-242).
RECURSIVE CsvTopBySize(_, _)
CsvTopBySize(incs, i) ==
    IF i >= 3 THEN <<>>
    ELSE CsvBySizeEntry(incs, i) \o CsvTopBySize(incs, i + 1)

\* Lines 209-245: the text one record adds.
CsvRow(stat) ==
    CsvScalars(stat)
    \o CsvTopByCount(stat.top_includes_by_count, 0)
    \o CsvTopBySize(stat.top_includes_by_size, 0)
    \o <<"\n">>

\* `for stat in stats` (line 209).
RECURSIVE CsvRows(_)
CsvRows(stats) ==
    IF stats = <<>> THEN <<>> ELSE CsvRow(Head(stats)) \o CsvRows(Tail(stats))

\* export_to_csv(stats)
ExportToCsv(stats) == CsvHeader \o CsvRows(stats)

\* Record lists handed to export_to_csv: rankings of zero to four entries,
\* file names and prefixes with and without a comma, sub-second durations, an
\* instant before the epoch, a name that is not valid UTF-8.
IncH == [path_prefix |-> <<"h">>, count |-> 1, lines |-> 7]
IncI == [path_prefix |-> <<"i">>, count |-> 1, lines |-> 5]
IncComma == [path_prefix |-> <<"x", ",", "y">>, count |-> 4, lines |-> 9]

CsvByCount == {SubSeq(<<IncF, IncG, IncH, IncI>>, 1, n) : n \in 0..4}

CsvBySize == {<<>>, <<IncG>>, <<IncG, IncF, IncH, IncI>>, <<IncComma, IncF>>}

\* a file whose name holds a comma
StatCommaFile == [StatA EXCEPT !.input_file = <<"a", ",", "b">>]

StatSlow ==
    [StatA EXCEPT !.preprocess_duration = [secs |-> 0, nanos |-> 1999999],
                  !.compile_duration = [secs |-> 2, nanos |-> 500000000],
                  !.is_distributed = TRUE, !.dist_retry_count = 2]

CsvStats ==
    {[StatA EXCEPT !.top_includes_by_count = byCount,
                   !.top_includes_by_size = bySize] :
        byCount \in CsvByCount, bySize \in CsvBySize}
    \cup {StatCommaFile, StatSlow, StatBadPath, StatPreEpoch}

\* Longest record list handed to export_to_csv.
MaxRows == 2

CsvLists == UNION {[1..n -> CsvStats] : n \in 0..MaxRows}

\* A caller holds a record list (last.list) and has not exported it yet.
InitCsv ==
    /\ recorder = None
    /\ mutex = NoThread
    /\ created = {}
    /\ mem = [p \in DbPaths |-> EmptyPartition]
    /\ durable = [p \in DbPaths |-> EmptyPartition]
    /\ unsynced = [p \in DbPaths |-> <<>>]
    /\ pc = [t \in Threads |-> "idle"]
    /\ cur = [t \in Threads |-> NoCall]
    /\ last \in {[NoLast EXCEPT !.list = stats] : stats \in CsvLists}
    /\ warnings = 0
    /\ nops = 0
    /\ faults = 0
    /\ log = <<>>
    /\ installs = <<>>

\* The caller exports its list: last.res is the String export_to_csv returns.
ExportCsv ==
    /\ last.call = "none"
    /\ last' = [last EXCEPT !.call = "export_to_csv", !.res = ExportToCsv(last.list)]
    /\ UNCHANGED <<recorder, mutex, created, mem, durable, unsynced, pc, cur,
                   warnings, nops, faults, log, installs>>

SpecCsv == InitCsv /\ [][ExportCsv]_vars

\* ------------------------------------------------------------------------
\* The aggregator that fills the rankings of a record (top-N include
\* contributions), and the compilations that hand its records to record_stats
\* ------------------------------------------------------------------------

\* "Top 10 include path prefixes" (doc comments of the two ranking fields).
TopN == 10

\* Number of distinct path prefixes among the files a compilation includes.
MaxPrefixes == 12

\* Number of files a compilation includes.
MaxContribs == 14

\* Path prefix number k.
PrefixOf(k) == <<"p">> \o Digits(k)

\* The i-th included file of a compilation whose includes walk through the
\* prefixes with the given stride: an IncludeContribution.
Contribution(i, stride) ==
    [path_prefix |-> PrefixOf(((i - 1) * stride) % MaxPrefixes),
     size_bytes |-> ((i * 3) % 4) + 1]

\* The include lists of the compilations: none, a few files, more files than
\* TopN, from few prefixes (stride 4) or from as many as there are (stride 1).
ContribLists ==
    {[i \in 1..n |-> Contribution(i, stride)] :
        n \in {0, 2, TopN + 1, MaxContribs}, stride \in {1, 4}}

\* The distinct prefixes of a list in the order of their first occurrence.
RECURSIVE FirstSeen(_, _)
FirstSeen(contribs, seen) ==
    IF contribs = <<>> THEN seen
    ELSE IF \E k \in DOMAIN seen : seen[k] = Head(contribs).path_prefix
         THEN FirstSeen(Tail(contribs), seen)
         ELSE FirstSeen(Tail(contribs), Append(seen, Head(contribs).path_prefix))

RECURSIVE SumSizes(_, _)
SumSizes(contribs, prefix) ==
    IF contribs = <<>> THEN 0
    ELSE (IF Head(contribs).path_prefix = prefix THEN Head(contribs).size_bytes ELSE 0)
         + SumSizes(Tail(contribs), prefix)

\* Grouping: one IncludeStats per prefix, count = number of contributions,
\* lines = sum of their sizes.
GroupOf(contribs, prefix) ==
    [path_prefix |-> prefix,
     count |-> Cardinality({i \in DOMAIN contribs : contribs[i].path_prefix = prefix}),
     lines |-> SumSizes(contribs, prefix)]

Groups(contribs) ==
    LET prefixes == FirstSeen(contribs, <<>>)
    IN  [k \in DOMAIN prefixes |-> GroupOf(contribs, prefixes[k])]

\* Stable sort, descending by the given field: a group goes behind every
\* group already placed whose value is not smaller.
RECURSIVE SortDescending(_, _, _)
SortDescending(groups, field, sorted) ==
    IF groups = <<>> THEN sorted
    ELSE LET g == Head(groups)
             ahead == Cardinality({k \in DOMAIN sorted : sorted[k][field] >= g[field]})
         IN  SortDescending(Tail(groups), field,
                            SubSeq(sorted, 1, ahead) \o <<g>>
                            \o SubSeq(sorted, ahead + 1, Len(sorted)))

\* Faulty variant: every group is kept.
KeepAll(ranking) == ranking

\* Truncation: only the first TopN groups are kept.
Truncate(ranking) ==
    IF Len(ranking) > TopN THEN SubSeq(ranking, 1, TopN) ELSE ranking

\* The aggregator: the two rankings of an include list.
Aggregate(contribs) ==
    [by_count |-> Truncate(SortDescending(Groups(contribs), "count", <<>>)),
     by_size |-> Truncate(SortDescending(Groups(contribs), "lines", <<>>))]

\* The record the compiler pipeline builds at the end of a compilation.
CompiledStats(contribs) ==
    [StatA EXCEPT !.num_includes = Len(contribs),
                  !.timestamp = [tv_sec |-> 1, tv_nsec |-> Len(contribs)],
                  !.top_includes_by_count = Aggregate(contribs).by_count,
                  !.top_includes_by_size = Aggregate(contribs).by_size]

\* Compilations record their statistics through the global recorder and an
\* operator queries the default store.
NextAgg ==
    \E t \in Threads :
        \/ InitRecorder(t, CfgDefault)
        \/ InitInstall(t)
        \/ \E contribs \in ContribLists : RecordStats(t, CompiledStats(contribs))
        \/ RecordStatsLocked(t)
        \/ RecordInsert(t)
        \/ RecordPersist(t)
        \/ QueryStats(t, NoFile)
        \/ QueryGetAll(t)

SpecAgg == Init /\ [][NextAgg]_vars

\* ------------------------------------------------------------------------
\* Vocabulary of the properties
\* ------------------------------------------------------------------------

\* The (timestamp, input_file) pair a record is keyed by.
Pair(stats) == <<stats.timestamp, stats.input_file>>

\* The positions in log of the writes made into the store at `path`.
Writes(path) == {i \in DOMAIN log : log[i].path = path}

\* What a scan (get_all) of the store at `path` returns in the current state.
Scan(path) == GetAll(mem[path])

\* A scan result is Ok and holds a record equal to `stats` in every field.
Returned(scan, stats) == scan.ok /\ \E n \in DOMAIN scan.val : scan.val[n] = stats

\* Write i was followed by another write for the same pair into the same store.
Replaced(i) ==
    \E j \in Writes(log[i].path) : j > i /\ Pair(log[j].stats) = Pair(log[i].stats)

\* A call of the given kind returns in this step.
ReturnsNow(call) ==
    /\ last'.call = call
    /\ \/ nops' # nops /\ pc' = pc
       \/ \E t \in Threads : pc[t] # "idle" /\ pc'[t] = "idle" /\ cur[t].call = call

RecordCalls == {"record", "record_stats"}

\* ------------------------------------------------------------------------
\* C1
\* ------------------------------------------------------------------------

\* C1 (round trip): when an insert of r (storage.record, directly or through
\* record_stats) has returned success and no other insert for the same
\* (timestamp, input_file) has written since, a scan of that store succeeds
\* and returns a record equal to r in every field.
C1_RoundTrip ==
    (last.call \in RecordCalls /\ last.inner = "ok" /\ ~Replaced(last.idx))
        => Returned(Scan(last.h), last.stats)

\* An insert of a record with a non-zero sub-second timestamp and non-empty
\* rankings has returned success and the scan returns it.
C1_Witness ==
    /\ last.call \in RecordCalls
    /\ last.inner = "ok"
    /\ last.stats = StatALater
    /\ Returned(Scan(last.h), StatALater)

\* ------------------------------------------------------------------------
\* C2
\* ------------------------------------------------------------------------

\* C2 (uniqueness by key): in a store all of whose inserts so far returned
\* success, a scan returns exactly one record per distinct
\* (timestamp, input_file) pair inserted: records whose pairs differ never
\* overwrite each other.
C2_UniquenessByKey ==
    \A path \in DbPaths :
        (\A i \in Writes(path) : log[i].acked) =>
            LET scan == Scan(path)
                pairs == {Pair(log[i].stats) : i \in Writes(path)}
            IN  /\ scan.ok
                /\ Len(scan.val) = Cardinality(pairs)
                /\ \A pair \in pairs : \E n \in DOMAIN scan.val : Pair(scan.val[n]) = pair

\* The same file was inserted at two instants of the same second, and another
\* file or instant besides: the store holds them all.
C2_Witness ==
    \E path \in DbPaths :
        /\ \A i \in Writes(path) : log[i].acked
        /\ \E i, j \in Writes(path) :
              /\ log[i].stats.input_file = log[j].stats.input_file
              /\ log[i].stats.timestamp.tv_sec = log[j].stats.timestamp.tv_sec
              /\ log[i].stats.timestamp # log[j].stats.timestamp
        /\ Len(Scan(path).val) = 2

\* ------------------------------------------------------------------------
\* C3
\* ------------------------------------------------------------------------

\* C3 (last write wins): for every (timestamp, input_file) pair inserted into a
\* store, a scan returns exactly one record with that pair, and it is the
\* record of the latest insert for the pair.
C3_LastWriteWins ==
    \A path \in DbPaths : \A i \in Writes(path) :
        ~Replaced(i) =>
            LET scan == Scan(path)
            IN  /\ scan.ok
                /\ Cardinality({n \in DOMAIN scan.val :
                                    Pair(scan.val[n]) = Pair(log[i].stats)}) = 1
                /\ \A n \in DOMAIN scan.val :
                      Pair(scan.val[n]) = Pair(log[i].stats) => scan.val[n] = log[i].stats

\* Two inserts with the identical pair and different contents both returned
\* success; the scan returns the later one only.
C3_Witness ==
    \E path \in DbPaths : \E i, j \in Writes(path) :
        /\ i < j
        /\ log[i].acked /\ log[j].acked
        /\ Pair(log[i].stats) = Pair(log[j].stats)
        /\ log[i].stats # log[j].stats
        /\ ~Replaced(j)
        /\ Returned(Scan(path), log[j].stats)
        /\ ~Returned(Scan(path), log[i].stats)

\* ------------------------------------------------------------------------
\* C4
\* ------------------------------------------------------------------------

\* C4 as stated: after a crash and reopening, a scan returns every record
\* whose insert had returned success.
C4_AckedSurvivesCrash ==
    last.call = "crash" =>
        \A i \in DOMAIN log :
            log[i].acked => Returned(Scan(log[i].path), log[i].stats)

\* C4 (durability), amended: at every point after an insert returned success,
\* crashes included, a scan of the store returns that record or, if later
\* inserts used the identical key, the record of one of those.
C4_DurableUnlessReplaced ==
    \A i \in DOMAIN log :
        log[i].acked =>
            \E j \in Writes(log[i].path) :
                /\ j >= i
                /\ Pair(log[j].stats) = Pair(log[i].stats)
                /\ Returned(Scan(log[i].path), log[j].stats)

\* After a crash a write that had not been persisted is gone, while a record
\* whose insert had returned success is still returned.
C4_Witness ==
    /\ last.call = "crash"
    /\ \E i, j \in DOMAIN log :
          /\ log[i].acked
          /\ Returned(Scan(log[i].path), log[i].stats)
          /\ ~log[j].acked
          /\ log[j].path = log[i].path
          /\ ~Returned(Scan(log[j].path), log[j].stats)

\* ------------------------------------------------------------------------
\* C5
\* ------------------------------------------------------------------------

\* C5 (record never propagates): whenever record_stats returns after its
\* storage.record failed, the caller gets no error, one warning has been
\* logged, and GLOBAL_RECORDER still holds the storage the call used.
C5_RecordNeverPropagates ==
    [][(ReturnsNow("record_stats") /\ last'.inner = "err")
          => /\ last'.res = "unit"
             /\ warnings' = warnings + 1
             /\ recorder' = recorder
             /\ recorder = last'.h
             /\ recorder # None]_vars

\* record_stats has returned normally although the durability barrier of its
\* insert failed after the write.
C5_Witness ==
    /\ last.call = "record_stats"
    /\ last.inner = "err"
    /\ last.res = "unit"
    /\ last.idx > 0
    /\ warnings = 1
    /\ recorder = last.h

\* ------------------------------------------------------------------------
\* C6
\* ------------------------------------------------------------------------

\* C6 as stated: once init_recorder with enabled = false has returned, the
\* global sink is unset, whatever calls preceded it.
C6_DisabledInitUnsets ==
    (last.call = "init_recorder" /\ last.h = None /\ last.res = "ok")
        => recorder = None

\* C6 (disabled config), amended: init_recorder with enabled = false returns Ok
\* and leaves the global sink and every store as they were; and a record_stats
\* call that finds the sink unset writes to no store, logs nothing and returns
\* normally.
C6_DisabledInitIsNoOp ==
    [][/\ (ReturnsNow("init_recorder") /\ last'.h = None)
             => /\ last'.res = "ok"
                /\ recorder' = recorder
                /\ UNCHANGED <<engine, log, warnings, faults>>
       /\ (ReturnsNow("record_stats") /\ recorder = None)
             => /\ last'.res = "unit"
                /\ last'.inner = "none"
                /\ UNCHANGED <<recorder, engine, log, warnings, faults>>]_vars

\* A disabled init_recorder has returned after an enabled one had installed a
\* storage: the storage is still installed.
C6_Witness ==
    /\ last.call = "init_recorder"
    /\ last.h = None
    /\ last.res = "ok"
    /\ installs # <<>>
    /\ recorder = installs[Len(installs)]

\* ------------------------------------------------------------------------
\* C7
\* ------------------------------------------------------------------------

\* C7 (re-init replaces the sink): GLOBAL_RECORDER always holds the storage of
\* the latest init_recorder that stored one, and every write made by a
\* record_stats call goes into that storage's store and into no other.
C7_ReinitReplacesSink ==
    [][/\ installs' # <<>> => recorder' = installs'[Len(installs')]
       /\ \A t \in Threads :
             (pc[t] = "rec_insert" /\ cur[t].call = "record_stats"
                 /\ pc'[t] = "rec_persist")
                => /\ installs # <<>>
                   /\ cur[t].h = installs[Len(installs)]
                   /\ \A path \in DbPaths \ {cur[t].h} : mem'[path] = mem[path]
                   /\ cur[t].key \in DOMAIN mem'[cur[t].h]
                   /\ mem'[cur[t].h][cur[t].key] = cur[t].val]_vars

\* After init_recorder for one path and then for another, a record_stats call
\* has inserted into the second store and the first is still empty.
C7_Witness ==
    /\ Len(installs) = 2
    /\ installs[1] # installs[2]
    /\ last.call = "record_stats"
    /\ last.inner = "ok"
    /\ last.h = installs[2]
    /\ Returned(Scan(installs[2]), last.stats)
    /\ mem[installs[1]] = EmptyPartition

\* ------------------------------------------------------------------------
\* C8
\* ------------------------------------------------------------------------

\* A stored value that is not a TranslationUnitStats document.
Undeserializable(path) ==
    {k \in DOMAIN mem[path] : ~FromSlice(mem[path][k]).ok}

\* C8 (scan surfaces corruption): whenever get_all runs on a partition holding
\* a value that does not deserialize, at whatever position, the query returns
\* an error and no record list.
C8_ScanSurfacesCorruption ==
    [][\A t \in Threads :
          (pc[t] = "qs_get_all" /\ pc'[t] = "idle"
              /\ Undeserializable(cur[t].h) # {})
             => (last'.res = "err" /\ last'.list = <<>>)]_vars

\* A query has failed, without any engine failure, on a partition whose first
\* entry in iteration order is a good record and a later one is not.
C8_Witness ==
    /\ last.call = "query_stats"
    /\ last.res = "err"
    /\ last.list = <<>>
    /\ faults = 1
    /\ LET keys == SortedKeys(DOMAIN mem[last.h])
       IN  /\ Len(keys) = 2
           /\ FromSlice(mem[last.h][keys[1]]).ok
           /\ ~FromSlice(mem[last.h][keys[2]]).ok

\* ------------------------------------------------------------------------
\* C9
\* ------------------------------------------------------------------------

\* C9 (concurrent inserts): under every interleaving of the threads, an insert
\* that returned success and whose (timestamp, input_file) pair no other
\* insert into the store shares is returned, unaltered, by a scan.
C9_ConcurrentInsertsSafe ==
    \A path \in DbPaths : \A i \in Writes(path) :
        (/\ log[i].acked
         /\ \A j \in Writes(path) \ {i} : Pair(log[j].stats) # Pair(log[i].stats))
            => Returned(Scan(path), log[i].stats)

\* Two record calls overlapped on one store: a thread has written and not yet
\* persisted, another wrote after it and has already returned success; both
\* records are in the scan.
C9_Witness ==
    \E t \in Threads :
        /\ pc[t] = "rec_persist"
        /\ \E i \in Writes(cur[t].h) :
              /\ i > cur[t].idx
              /\ log[i].acked
              /\ Pair(log[i].stats) # Pair(cur[t].stats)
              /\ Returned(Scan(cur[t].h), log[i].stats)
              /\ Returned(Scan(cur[t].h), cur[t].stats)

\* ------------------------------------------------------------------------
\* C10
\* ------------------------------------------------------------------------

\* C10 (scope of the singleton's mutex): the lock of GLOBAL_RECORDER is held
\* only for the access to the singleton, never while the holder is inside the
\* store's insert (partition.insert and persist).
C10_MutexNotHeldDuringInsert ==
    \A t \in Threads : pc[t] \in {"rec_insert", "rec_persist"} => mutex # t

\* ------------------------------------------------------------------------
\* C11
\* ------------------------------------------------------------------------

\* C11 (concurrent init): in every state, between and after init_recorder
\* calls that overlap on two threads, GLOBAL_RECORDER holds nothing (as long
\* as no call has stored a storage) or one storage that was opened completely,
\* the one stored last; and a record_stats call that has found a storage
\* inserts into that storage, which stays the installed one until the call is
\* over, while an init_recorder running at the same time waits with its own,
\* opened storage.
C11_ConcurrentInit ==
    /\ recorder \in {None} \cup created
    /\ installs = <<>> => recorder = None
    /\ installs # <<>> => recorder = installs[Len(installs)]
    /\ \A t \in Threads :
          /\ pc[t] = "ir_lock" => cur[t].h \in created
          /\ (pc[t] \in {"rec_insert", "rec_persist"} /\ cur[t].call = "record_stats")
                => /\ cur[t].h = recorder
                   /\ recorder # None
                   /\ pc[t] = "rec_persist" => log[cur[t].idx].path = recorder

\* While one init_recorder has stored its storage and a second one, started
\* for another path, has opened its own and waits for the lock, a record_stats
\* call holding the lock has inserted into the storage stored first.
C11_Witness ==
    /\ Len(installs) = 1
    /\ recorder = installs[1]
    /\ \E t, u \in Threads :
          /\ pc[t] = "ir_lock"
          /\ cur[t].h # recorder
          /\ pc[u] = "rec_persist"
          /\ cur[u].call = "record_stats"
          /\ log[cur[u].idx].path = recorder
          /\ mem[cur[t].h] = EmptyPartition

\* ------------------------------------------------------------------------
\* C12
\* ------------------------------------------------------------------------

\* The pieces of a text between the occurrences of a separator.
Split(text, sep) ==
    LET at == {i \in 1..Len(text) : text[i] = sep}
        \* position of the k-th separator; 0 and Len + 1 bound the text
        pos(k) == IF k = 0 THEN 0
                  ELSE IF k > Cardinality(at) THEN Len(text) + 1
                  ELSE CHOOSE i \in at : Cardinality({j \in at : j < i}) = k - 1
    IN  [k \in 1..(Cardinality(at) + 1) |->
            SubSeq(text, pos(k - 1) + 1, pos(k) - 1)]

\* The lines of a CSV text, each ended by a line feed.
CsvLines(text) ==
    LET pieces == Split(text, "\n") IN SubSeq(pieces, 1, Len(pieces) - 1)

\* The comma-separated fields of a line.
CsvFields(line) == Split(line, ",")

\* C12 (fixed column count): every data row of the text export_to_csv returns
\* has as many comma-separated fields as the header row.
C12_FixedColumnCount ==
    last.call = "export_to_csv" =>
        LET lines == CsvLines(last.res)
        IN  \A n \in 2..Len(lines) :
                Len(CsvFields(lines[n])) = Len(CsvFields(lines[1]))

\* ------------------------------------------------------------------------
\* C13
\* ------------------------------------------------------------------------

\* The three columns of position k of a ranking: the prefix and the two
\* numbers in the given order, or three empty columns past the ranking's end.
RankingColumns(ranking, k, first, second) ==
    IF k <= Len(ranking)
    THEN <<ranking[k].path_prefix, FmtInt(ranking[k][first]), FmtInt(ranking[k][second])>>
    ELSE <<<<>>, <<>>, <<>>>>

\* The nine columns of a ranking block.
BlockColumns(ranking, first, second) ==
    RankingColumns(ranking, 1, first, second)
    \o RankingColumns(ranking, 2, first, second)
    \o RankingColumns(ranking, 3, first, second)

\* The names of the nine columns of a ranking block.
BlockNames(by, first, second) ==
    LET names(k) == <<<<"top" \o ToString(k) \o "_by_" \o by>>,
                      <<"top" \o ToString(k) \o "_" \o first>>,
                      <<"top" \o ToString(k) \o "_" \o second>>>>
    IN  names(1) \o names(2) \o names(3)

\* Columns written one after the other, a comma before each.
RECURSIVE CommaBefore(_)
CommaBefore(columns) ==
    IF columns = <<>> THEN <<>>
    ELSE <<",">> \o Head(columns) \o CommaBefore(Tail(columns))

\* C13 (ranking blocks): in the text export_to_csv returns, the row of every
\* record is its eight scalar columns followed by the first three entries of
\* the by-count ranking as (prefix, count, lines) and then the first three of
\* the by-size ranking as (prefix, lines, count), in ranking order and with
\* nothing of a fourth entry; the header names the 18 ranking columns in that
\* order after the 8 scalar ones.
C13_RankingBlocks ==
    last.call = "export_to_csv" =>
        LET lines == CsvLines(last.res)
        IN  /\ Len(lines) = Len(last.list) + 1
            /\ SubSeq(CsvFields(lines[1]), 9, 26) =
                  BlockNames("count", "count", "lines")
                  \o BlockNames("size", "lines", "count")
            /\ Len(CsvFields(lines[1])) = 26
            /\ \A n \in DOMAIN last.list :
                  lines[n + 1] =
                      CsvScalars(last.list[n])
                      \o CommaBefore(
                            BlockColumns(last.list[n].top_includes_by_count,
                                         "count", "lines")
                            \o BlockColumns(last.list[n].top_includes_by_size,
                                            "lines", "count"))

\* A record with four by-count entries and one by-size entry has been
\* exported: columns 9 to 17 hold the first three by-count entries, columns 18
\* to 20 the by-size entry with lines before count, the rest is empty and the
\* fourth by-count entry appears nowhere.
C13_Witness ==
    /\ last.call = "export_to_csv"
    /\ Len(last.list) = 2
    /\ last.list[2].input_file = <<"a", ".", "c">>
    /\ last.list[2].top_includes_by_count = <<IncF, IncG, IncH, IncI>>
    /\ last.list[2].top_includes_by_size = <<IncG>>
    /\ LET fields == CsvFields(CsvLines(last.res)[3])
       IN  /\ Len(fields) = 26
           /\ SubSeq(fields, 9, 17) =
                 << <<"f">>, <<"2">>, <<"3", "0">>, <<"g">>, <<"1">>, <<"4", "0">>,
                    <<"h">>, <<"1">>, <<"7">> >>
           /\ SubSeq(fields, 18, 20) = << <<"g">>, <<"4", "0">>, <<"1">> >>
           /\ \A c \in 21..26 : fields[c] = <<>>
           /\ \A c \in 1..26 : fields[c] # <<"i">>

\* ------------------------------------------------------------------------
\* C14
\* ------------------------------------------------------------------------

\* A ranking has at most TopN entries and no prefix twice.
Bounded(ranking) ==
    /\ Len(ranking) <= TopN
    /\ \A i, j \in DOMAIN ranking :
          i # j => ranking[i].path_prefix # ranking[j].path_prefix

BoundedRankings(stats) ==
    Bounded(stats.top_includes_by_count) /\ Bounded(stats.top_includes_by_size)

\* The same of a ranking in a stored document: an array of objects.
BoundedArray(ranking) ==
    /\ Len(ranking.array) <= TopN
    /\ \A i, j \in DOMAIN ranking.array :
          i # j => ranking.array[i].object.path_prefix
                       # ranking.array[j].object.path_prefix

BoundedDocument(value) ==
    /\ BoundedArray(value.object.top_includes_by_count)
    /\ BoundedArray(value.object.top_includes_by_size)

\* C14 (bounded rankings): every record that a compilation hands over and
\* that is written to a store, every record a scan of a store would return and
\* every record a query has returned has at most TopN = 10 entries in each
\* ranking and no path prefix twice within a ranking.
C14_BoundedRankings ==
    /\ \A i \in DOMAIN log : BoundedRankings(log[i].stats)
    /\ \A path \in DbPaths :
          /\ \A key \in DOMAIN mem[path] : BoundedDocument(mem[path][key])
          /\ Scan(path).ok
          /\ \A n \in DOMAIN Scan(path).val : BoundedRankings(Scan(path).val[n])
    /\ (last.call = "query_stats" /\ last.res = "ok")
          => \A n \in DOMAIN last.list : BoundedRankings(last.list[n])

\* A compilation that included files from more than TopN distinct prefixes has
\* recorded its statistics; a query returns its record with exactly TopN
\* entries in each ranking, first the prefix included twice.
C14_Witness ==
    LET contribs == [i \in 1..MaxContribs |-> Contribution(i, 1)]
    IN  /\ Len(FirstSeen(contribs, <<>>)) > TopN
        /\ last.call = "query_stats"
        /\ last.res = "ok"
        /\ \E n \in DOMAIN last.list :
              /\ last.list[n].num_includes = MaxContribs
              /\ Len(last.list[n].top_includes_by_count) = TopN
              /\ Len(last.list[n].top_includes_by_size) = TopN
              /\ last.list[n].top_includes_by_count[1].count = 2
              /\ last.list[n] = CompiledStats(contribs)

\* ------------------------------------------------------------------------
\* C15
\* ------------------------------------------------------------------------

\* C15 (failed init): whenever init_recorder, called with an enabled config,
\* fails to open its store, it returns the error and GLOBAL_RECORDER keeps the
\* value it had: nothing is stored, no store changes, and a record_stats call
\* under way goes on with the storage that was installed.
C15_FailedInitKeepsSink ==
    [][\A config \in Configs \ {CfgDisabled} : \A t \in Threads :
          (/\ pc[t] = "idle"
           /\ nops' = nops + 1
           /\ cur'[t].call = "none"
           /\ last'.call = "init_recorder"
           /\ last'.h = StatsFile(config.stats_file)
           /\ faults' = faults + 1)
             => /\ last'.res = "err"
                /\ recorder' = recorder
                /\ installs' = installs
                /\ mutex' = mutex
                /\ mem' = mem
                /\ created' = created
                /\ \A u \in Threads \ {t} : pc'[u] = pc[u] /\ cur'[u] = cur[u]]_vars

\* init_recorder for another path has just failed while a storage was
\* installed; the storage is still installed and a record_stats call has
\* inserted into it.
C15_Witness ==
    /\ last.call = "init_recorder"
    /\ last.res = "err"
    /\ installs # <<>>
    /\ recorder = installs[Len(installs)]
    /\ last.h # recorder
    /\ \E t \in Threads :
          /\ pc[t] = "rec_persist"
          /\ cur[t].call = "record_stats"
          /\ cur[t].h = recorder
          /\ Returned(Scan(recorder), cur[t].stats)

\* ------------------------------------------------------------------------
\* C16
\* ------------------------------------------------------------------------

\* C16 (a failed insert leaves the store unchanged): a record whose insert
\* (storage.record, directly or through record_stats) has reported failure,
\* and whose (timestamp, input_file) pair no other insert has written to the
\* store, is not returned by a scan of the store.
C16_FailedInsertInvisible ==
    (/\ last.call \in RecordCalls
     /\ last.inner = "err"
     /\ \A j \in Writes(last.h) \ {last.idx} : Pair(log[j].stats) # Pair(last.stats))
        => ~Returned(Scan(last.h), last.stats)

\* ------------------------------------------------------------------------
\* C17
\* ------------------------------------------------------------------------

\* C17 (the sink is never unset once installed): GLOBAL_RECORDER holds nothing
\* or one opened store, and no step of init_recorder (enabled, disabled or
\* failing), record_stats, record or query_stats takes an installed storage
\* out of it.
C17_NeverUnset ==
    [][/\ recorder' \in {None} \cup created'
       /\ recorder # None => recorder' # None]_vars

\* After a storage was installed, a record_stats call failed and was logged,
\* and a disabled init_recorder returned: the storage is still installed.
C17_Witness ==
    /\ Len(installs) = 1
    /\ recorder = installs[1]
    /\ warnings = 1
    /\ last.call = "init_recorder"
    /\ last.h = None

\* ------------------------------------------------------------------------
\* C18
\* ------------------------------------------------------------------------

\* C18 (record without a sink): a record_stats call that takes the lock while
\* GLOBAL_RECORDER holds no storage returns normally in that step, logs
\* nothing, and changes neither the singleton nor any store: no keyspace is
\* opened, no partition written, nothing persisted.
C18_RecordWithoutSinkIsNoOp ==
    [][\A t \in Threads :
          (pc[t] = "rs_lock" /\ pc'[t] # "rs_lock" /\ recorder = None)
             => /\ pc'[t] = "idle"
                /\ last'.call = "record_stats"
                /\ last'.res = "unit"
                /\ last'.inner = "none"
                /\ recorder' = None
                /\ mutex' = NoThread
                /\ UNCHANGED <<created, mem, durable, unsynced, log, installs,
                               warnings, faults>>]_vars

\* record_stats has returned without a storage while an init_recorder had
\* opened its store and not yet installed it; the store is empty.
C18_Witness ==
    /\ last.call = "record_stats"
    /\ last.res = "unit"
    /\ last.inner = "none"
    /\ last.h = None
    /\ recorder = None
    /\ log = <<>>
    /\ \E t \in Threads :
          /\ pc[t] = "ir_lock"
          /\ cur[t].h \in created
          /\ mem[cur[t].h] = EmptyPartition

\* ------------------------------------------------------------------------
\* C19
\* ------------------------------------------------------------------------

\* The keys of the records whose insert into the store has returned success.
AckedKeys(path) == {KeyOf(log[i].stats) : i \in {j \in Writes(path) : log[j].acked}}

\* C19 (the store is append-only): no step removes a key from a store, a
\* query leaves the stores as they are, and whenever no call is under way the
\* keys a scan goes through are exactly the keys of the inserts that returned
\* success.
C19_AppendOnly ==
    [][/\ \A path \in DbPaths : DOMAIN mem[path] \subseteq DOMAIN mem'[path]
       /\ (\E t \in Threads : pc[t] = "qs_get_all" /\ pc'[t] = "idle")
             => mem' = mem
       /\ (\A t \in Threads : pc'[t] = "idle")
             => \A path \in DbPaths : DOMAIN mem'[path] = AckedKeys(path)']_vars

\* ------------------------------------------------------------------------
\* C20
\* ------------------------------------------------------------------------

\* C20 (no deadlock on the singleton's mutex): the mutex is held only by a
\* thread that is inside record_stats, so it is free again when the call has
\* returned, and with every thread scheduled fairly each init_recorder and
\* each record_stats call that has started returns.
C20_NoDeadlock ==
    /\ [](\A t \in Threads :
             mutex = t => /\ pc[t] \in {"rec_insert", "rec_persist"}
                          /\ cur[t].call = "record_stats")
    /\ [](mutex \in Threads \cup {NoThread})
    /\ \A t \in Threads : (pc[t] # "idle") ~> (pc[t] = "idle")

\* One thread holds the lock inside record_stats, after its write, while the
\* other has called record_stats or init_recorder and waits for the lock.
C20_Witness ==
    \E t, u \in Threads :
        /\ mutex = t
        /\ pc[t] = "rec_persist"
        /\ pc[u] \in {"rs_lock", "ir_lock"}
        /\ installs # <<>>

====
